---- MODULE Spec2Model ----
(***************************************************************************)
(* Model of the flight-recommendation backend (src/app.py): the request    *)
(* handler flight_recommendations_endpoint, the recommendation crew it     *)
(* kicks off (Stage A, Stage B, write of recommendations.json), the        *)
(* background thread run_schedule_generation_task (generation, write of    *)
(* calendar_events.json) and the calendar read endpoint that takes         *)
(* calendar_lock.                                                          *)
(*                                                                         *)
(* Files are modelled by their content: a file that is opened for writing  *)
(* is truncated first and filled afterwards, so a reader that is not       *)
(* excluded by a lock can see the empty file.                              *)
(***************************************************************************)
EXTENDS Integers, Sequences, FiniteSets, TLC

\* Number of POST /api/flight-recommendations requests of a run.
NumReqs == 2
Reqs == 1..NumReqs

\* ------------------------------------------------------------------------
\* Values
\* ------------------------------------------------------------------------

\* A file: exists, and its body. Body 0 is the empty (just truncated) file.
\* recommendations.json holds body r when it holds the JSON of the
\* HealthRecommendations generated by request r.
NoFile == [exists |-> FALSE, body |-> 0]
EmptyFile == [exists |-> TRUE, body |-> 0]
RecFile(r) == [exists |-> TRUE, body |-> r]

\* calendar_events.json: the text is a sequence of tokens. "FENCE_JSON" and
\* "FENCE" are the markdown fences (three backticks, with and without the
\* json tag), "WS" is a run of whitespace, "L" is the text of a JSON list of
\* events, "D" the text of a JSON value that is not a list, "X" text that is
\* no JSON. owner is the request whose schedule job wrote the text (0:
\* nobody). A file that is not readable exists but open() or read() fails
\* on it.
NoCalFile == [exists |-> FALSE, owner |-> 0, text |-> <<>>, readable |-> TRUE]
EmptyCalFile == [exists |-> TRUE, owner |-> 0, text |-> <<>>, readable |-> TRUE]
CalFile(r, text) ==
  [exists |-> TRUE, owner |-> r, text |-> text, readable |-> TRUE]
UnreadableCalFile(r, text) ==
  [exists |-> TRUE, owner |-> r, text |-> text, readable |-> FALSE]

\* What the schedule generation call may return: the event list wrapped in
\* a fenced block, or text that is no JSON.
JobOutputs ==
  { <<"FENCE_JSON", "L", "FENCE">>, <<"X">> }

\* Threads, as holders of calendar_lock.
NoThread == [kind |-> "free", id |-> 0]
RequestThread(r) == [kind |-> "request", id |-> r]
JobThread(r) == [kind |-> "job", id |-> r]
CalendarReadThread == [kind |-> "calendar_read", id |-> 0]
OpThread(t) == [kind |-> "op", id |-> t]

\* Most concurrent callers of the operations that take calendar_lock.
NumOps == 2
Ops == 1..NumOps
\* What a caller holds before its operation returns.
NoResult == [status |-> 0, events |-> 0]

\* A timestamp as the provider writes it: a date and a wall-clock hour,
\* followed by a UTC offset (kind "offset"), by the letter Z (kind "z") or
\* by nothing (kind "naive"); kind "bad" is a string that is no timestamp.
Timestamp(day, hour, kind, offset) ==
  [day |-> day, hour |-> hour, kind |-> kind, offset |-> offset]
BadTimestamp == Timestamp(0, 0, "bad", 0)
NoneTime == Timestamp(0, 0, "none", 0)

\* UTC offsets written in the timestamps, and timezones of the host, in
\* hours ahead of UTC.
UtcOffsets == {-5, 0, 9}
HostOffsets == {-4, 0, 9}

\* A flight record: the provider entry it was built from, the positions of
\* the flight points taken as departure and arrival with their airport codes
\* and formatted times, and the segments and legs kept.
NoFlight ==
  [found |-> FALSE, entry |-> 0, departure |-> 0, arrival |-> 0,
   departureCode |-> "", arrivalCode |-> "",
   departureTime |-> NoneTime, arrivalTime |-> NoneTime,
   segments |-> <<>>, legs |-> <<>>]
NoErr == "none"

\* ------------------------------------------------------------------------
\* clean_and_parse_json_file: strip fences, parse, keep lists only
\* ------------------------------------------------------------------------

\* str.strip(): whitespace is removed at both ends
RECURSIVE Strip(_)
Strip(text) ==
  IF text = <<>> THEN <<>>
  ELSE IF Head(text) = "WS" THEN Strip(Tail(text))
  ELSE IF text[Len(text)] = "WS" THEN Strip(SubSeq(text, 1, Len(text) - 1))
  ELSE text

\* lines 211-214: if startswith(tok): remove it, then strip()
StripLeading(text, tok) ==
  IF Len(text) > 0 /\ Head(text) = tok THEN Strip(Tail(text)) ELSE text

\* lines 215-216: if endswith(tok): remove it, then strip()
StripTrailing(text, tok) ==
  IF Len(text) > 0 /\ text[Len(text)] = tok
  THEN Strip(SubSeq(text, 1, Len(text) - 1)) ELSE text

\* Mutant: only the fence with the json tag is removed at the start.
RemoveFences_JsonTagOnly(text) ==
  StripTrailing(StripLeading(text, "FENCE_JSON"), "FENCE")

\* lines 211-216: the three strip steps, in the order of the code
RemoveFences(text) ==
  StripTrailing(StripLeading(StripLeading(text, "FENCE_JSON"), "FENCE"), "FENCE")

\* json.loads of the cleaned text: "list", "value" (JSON, not a list),
\* or "error" (JSONDecodeError). Whitespace around the value is accepted.
JsonLoads(text) ==
  IF Strip(text) = <<"L">> THEN "list"
  ELSE IF Strip(text) = <<"D">> THEN "value"
  ELSE "error"

\* lines 203-226, the body of the try: the events returned (the owner's
\* list, or 0 for the empty list []) or the exception raised
TryCleanAndParse(file) ==
  IF ~file.exists THEN [exc |-> "none", events |-> 0]
  ELSE IF ~file.readable THEN [exc |-> "OSError", events |-> 0]
  ELSE LET raw == RemoveFences(Strip(file.text)) IN
       IF raw = <<>> THEN [exc |-> "none", events |-> 0]
       ELSE IF JsonLoads(raw) = "error"
            THEN [exc |-> "JSONDecodeError", events |-> 0]
       ELSE IF JsonLoads(raw) = "list"
            THEN [exc |-> "none", events |-> file.owner]
       ELSE [exc |-> "none", events |-> 0]

\* Mutant: only the JSON error is caught.
CaughtByCleanAndParse_JsonOnly == {"JSONDecodeError"}

\* lines 228-233: except json.JSONDecodeError, except Exception
CaughtByCleanAndParse == {"JSONDecodeError", "OSError"}

\* raised: the exception leaves the function
clean_and_parse_json_file(file) ==
  LET t == TryCleanAndParse(file) IN
  IF t.exc = "none" THEN [raised |-> FALSE, events |-> t.events]
  ELSE IF t.exc \in CaughtByCleanAndParse
       THEN [raised |-> FALSE, events |-> 0]
  ELSE [raised |-> TRUE, events |-> 0]

\* ------------------------------------------------------------------------
\* get_flight_details
\* ------------------------------------------------------------------------

\* The hours of a day.
HoursPerDay == 24

\* Hours since the start of day 0 of a date and hour.
HoursOf(day, hour) == day * HoursPerDay + hour

\* lines 240-263 (format_iso_datetime): fromisoformat accepts a string with
\* an offset and a string without one; astimezone(pytz.utc) subtracts the
\* offset of the former and takes the latter as local time of the host,
\* host hours ahead of UTC; a string ending in Z is read as UTC (by
\* fromisoformat, or after the ValueError by the fallback of lines 252-257);
\* the result is written as YYYY-MM-DDTHH:MM:SSZ; anything else gives None.
format_iso_datetime(dt_str, host) ==
  IF dt_str.kind \notin {"offset", "naive", "z"} THEN NoneTime
  ELSE LET ahead == IF dt_str.kind = "offset" THEN dt_str.offset
                    ELSE IF dt_str.kind = "naive" THEN host
                    ELSE 0
           utc == HoursOf(dt_str.day, dt_str.hour) - ahead IN
       Timestamp(utc \div HoursPerDay, utc % HoursPerDay, "z", 0)

\* src/tester.py lines 24-38 (format_iso_datetime): the string without its
\* last 6 characters is parsed and the string itself is returned; cutting 6
\* characters from a string that ends in Z leaves no timestamp.
tester_format_iso_datetime(dt_str) ==
  IF dt_str.kind \in {"offset", "naive"} THEN dt_str ELSE NoneTime

\* A segment or leg of a provider entry: where it boards and where it ends.
Part(id, board, off) ==
  [id |-> id, boardPointIataCode |-> board, offPointIataCode |-> off]

\* A provider entry: its flight points (their airport codes), whether the
\* first point has departure timings and the last one arrival timings,
\* whether the codes and time values of these two points are all present,
\* the two time values, and its segments and legs.
FlightEntry(id, codes, dep, arr, ess, depTime, arrTime, segments, legs) ==
  [id |-> id, npoints |-> Len(codes), codes |-> codes,
   depTimings |-> dep, arrTimings |-> arr, essential |-> ess,
   depTime |-> depTime, arrTime |-> arrTime,
   segments |-> segments, legs |-> legs]

\* The airport codes of a flight with n points.
Airports == <<"JFK", "ORD", "LAX">>
Route(n) == SubSeq(Airports, 1, n)

\* An entry with n flight points that leaves at 10:00 and arrives at 15:00
\* UTC on day 1 and has neither segments nor legs.
Entry(id, n, dep, arr, ess) ==
  FlightEntry(id, Route(n), dep, arr, ess,
              Timestamp(1, 10, "offset", 0), Timestamp(1, 15, "offset", 0),
              <<>>, <<>>)

\* The outcomes of amadeus.schedule.flights.get: a ResponseError, or data.
ProviderPayloads ==
  { [error |-> TRUE, data |-> <<>>],
    [error |-> FALSE, data |-> <<>>],
    [error |-> FALSE, data |-> << Entry(1, 1, TRUE, TRUE, TRUE),
                                  Entry(2, 2, TRUE, FALSE, TRUE) >>],
    [error |-> FALSE, data |-> << Entry(1, 1, TRUE, TRUE, TRUE),
                                  Entry(2, 2, TRUE, TRUE, TRUE),
                                  Entry(3, 3, TRUE, TRUE, TRUE) >>] }

\* lines 282-306: the conditions under which the loop does not continue
Usable(e, host) ==
  /\ e.npoints >= 2
  /\ e.depTimings /\ e.arrTimings
  /\ e.essential
  /\ format_iso_datetime(e.depTime, host) # NoneTime
  /\ format_iso_datetime(e.arrTime, host) # NoneTime

\* lines 278-322: index of the first usable entry from i on, 0 when none
RECURSIVE FirstUsable(_, _, _)
FirstUsable(data, i, host) ==
  IF i > Len(data) THEN 0
  ELSE IF Usable(data[i], host) THEN i
  ELSE FirstUsable(data, i + 1, host)

\* Mutant: a segment or leg is kept when it boards at the departure airport.
KeptPart_BoardOnly(part, departure_code, arrival_code) ==
  part.boardPointIataCode = departure_code

\* lines 308-310: the test of the two list comprehensions
KeptPart(part, departure_code, arrival_code) ==
  /\ part.boardPointIataCode = departure_code
  /\ part.offPointIataCode = arrival_code

\* lines 308-310: the parts of a list that pass the test, in their order
RECURSIVE PartsBetween(_, _, _)
PartsBetween(parts, departure_code, arrival_code) ==
  IF parts = <<>> THEN <<>>
  ELSE (IF KeptPart(Head(parts), departure_code, arrival_code)
        THEN <<Head(parts)>> ELSE <<>>)
       \o PartsBetween(Tail(parts), departure_code, arrival_code)

\* lines 280-320: the record built from a usable entry
FlightRecord(e, host) ==
  LET departure_code == e.codes[1]
      arrival_code == e.codes[e.npoints] IN
  [found |-> TRUE, entry |-> e.id, departure |-> 1, arrival |-> e.npoints,
   departureCode |-> departure_code, arrivalCode |-> arrival_code,
   departureTime |-> format_iso_datetime(e.depTime, host),
   arrivalTime |-> format_iso_datetime(e.arrTime, host),
   segments |-> PartsBetween(e.segments, departure_code, arrival_code),
   legs |-> PartsBetween(e.legs, departure_code, arrival_code)]

\* Mutant: a provider error is reported as incomplete data.
ProviderErrorMessage_Incomplete == "Could not extract complete flight details"

\* line 329: the message of the except clause for ResponseError
ProviderErrorMessage == "Amadeus API Error"

get_flight_details(p, host) ==
  IF p.error THEN [flight |-> NoFlight, err |-> ProviderErrorMessage]
  ELSE IF p.data = <<>>
       THEN [flight |-> NoFlight, err |-> "No flight data available"]
  ELSE LET i == FirstUsable(p.data, 1, host) IN
       IF i = 0
       THEN [flight |-> NoFlight,
             err |-> "Could not extract complete flight details"]
       ELSE [flight |-> FlightRecord(p.data[i], host), err |-> NoErr]

\* src/tester.py lines 62-84: the conditions under which an entry with at
\* least 2 flight points is used
TesterUsable(e) ==
  /\ e.depTimings /\ e.arrTimings
  /\ e.essential
  /\ tester_format_iso_datetime(e.depTime) # NoneTime
  /\ tester_format_iso_datetime(e.arrTime) # NoneTime

\* src/tester.py lines 56-113: the same search, but an entry with fewer than
\* 2 flight points ends the loop (break, line 113)
RECURSIVE TesterFirstUsable(_, _)
TesterFirstUsable(data, i) ==
  IF i > Len(data) THEN 0
  ELSE IF data[i].npoints >= 2
       THEN IF TesterUsable(data[i]) THEN i
            ELSE TesterFirstUsable(data, i + 1)
  ELSE 0

\* src/tester.py lines 58-105: the record the script builds
TesterFlightRecord(e) ==
  LET departure_code == e.codes[1]
      arrival_code == e.codes[e.npoints] IN
  [found |-> TRUE, entry |-> e.id, departure |-> 1, arrival |-> e.npoints,
   departureCode |-> departure_code, arrivalCode |-> arrival_code,
   departureTime |-> tester_format_iso_datetime(e.depTime),
   arrivalTime |-> tester_format_iso_datetime(e.arrTime),
   segments |-> PartsBetween(e.segments, departure_code, arrival_code),
   legs |-> PartsBetween(e.legs, departure_code, arrival_code)]

\* src/tester.py lines 48-127: what the script prints
tester_flight_details(p) ==
  IF p.error THEN [flight |-> NoFlight, err |-> "API Error"]
  ELSE IF p.data = <<>>
       THEN [flight |-> NoFlight, err |-> "No flight data available"]
  ELSE LET i == TesterFirstUsable(p.data, 1) IN
       IF i = 0
       THEN [flight |-> NoFlight,
             err |-> "Could not extract complete flight details"]
       ELSE [flight |-> TesterFlightRecord(p.data[i]), err |-> NoErr]

\* ------------------------------------------------------------------------
\* create_recommendation_crew: the estimate of the travel direction
\* ------------------------------------------------------------------------

\* line 604: timedelta(hours=12)
DirectionLimitHours == 12

\* lines 598-599: fromisoformat of the time with Z replaced by +00:00
Parses(time) == time.kind = "z"

\* Mutant: a flight of exactly 12 hours still counts.
TravelDirection_UpTo12(departure_time, arrival_time) ==
  IF ~Parses(departure_time) \/ ~Parses(arrival_time) THEN "eastward"
  ELSE LET time_diff ==
             HoursOf(arrival_time.day, arrival_time.hour)
               - HoursOf(departure_time.day, departure_time.hour) IN
       IF arrival_time.hour < departure_time.hour
            /\ time_diff <= DirectionLimitHours
       THEN "eastward"
       ELSE IF departure_time.hour < arrival_time.hour
                 /\ time_diff <= DirectionLimitHours
       THEN "westward"
       ELSE "eastward"

\* lines 595-613: the default is eastward and stays when a time does not
\* parse (the exception is caught at line 611); otherwise the times of day
\* are compared, and the difference of the two instants with 12 hours
TravelDirection(departure_time, arrival_time) ==
  IF ~Parses(departure_time) \/ ~Parses(arrival_time) THEN "eastward"
  ELSE LET time_diff ==
             HoursOf(arrival_time.day, arrival_time.hour)
               - HoursOf(departure_time.day, departure_time.hour) IN
       IF arrival_time.hour < departure_time.hour
            /\ time_diff < DirectionLimitHours
       THEN "eastward"
       ELSE IF departure_time.hour < arrival_time.hour
                 /\ time_diff < DirectionLimitHours
       THEN "westward"
       ELSE "eastward"

\* ------------------------------------------------------------------------
\* process_health_data
\* ------------------------------------------------------------------------

HIGH_SLEEP_HR_THRESHOLD == 70
DaysToConsider == 3
\* datetime.utcnow(), in hours
NowH == 200

CutoffH == NowH - DaysToConsider * HoursPerDay

\* A timestamp is its hour and how the string parses: "utc" (with offset:
\* an aware datetime), "naive" (without offset) or "bad" (fromisoformat
\* raises). numeric: beatsPerMinute is a number.
SessionTz(s, e, tz) ==
  [startTime |-> s, endTime |-> e, tz |-> tz, endParses |-> TRUE]
\* A session whose endTime is no timestamp.
SessionBadEnd(s, tz) ==
  [startTime |-> s, endTime |-> 0, tz |-> tz, endParses |-> FALSE]
SampleTz(t, b, tz, num) == [time |-> t, bpm |-> b, tz |-> tz, numeric |-> num]
Session(s, e) == SessionTz(s, e, "utc")
Sample(t, b) == SampleTz(t, b, "utc", TRUE)

\* health_data.json as a call finds it: missing, unreadable (open fails or
\* the content is no JSON), a JSON value that is not an object, or an object
\* with sleepRecords (sessions) and heartRateRecords (each record is its
\* list of samples; a record without a samples list counts as <<>>).
MissingSnapshot == [kind |-> "missing", sleep |-> <<>>, hr |-> <<>>]
UnreadableSnapshot == [kind |-> "unreadable", sleep |-> <<>>, hr |-> <<>>]
NotDictSnapshot == [kind |-> "notdict", sleep |-> <<>>, hr |-> <<>>]
DictSnapshot(sleep, hr) == [kind |-> "dict", sleep |-> sleep, hr |-> hr]

\* What the request handler may find: no file, no object, a high and a
\* normal sleep heart rate, and samples with and without UTC offset.
HealthSnapshots ==
  { MissingSnapshot,
    NotDictSnapshot,
    DictSnapshot(<< Session(NowH - 10, NowH - 2) >>,
                 << << Sample(NowH - 8, 80), Sample(NowH - 9, 62) >>,
                    << Sample(NowH - 11, 200) >> >>),
    DictSnapshot(<< Session(NowH - 10, NowH - 2),
                    Session(CutoffH - 10, CutoffH - 2) >>,
                 << << Sample(NowH - 9, 60), Sample(NowH - 8, 79),
                       Sample(CutoffH - 5, 40) >> >>),
    DictSnapshot(<< Session(NowH - 10, NowH - 2) >>,
                 << << Sample(NowH - 8, 80),
                       SampleTz(NowH - 9, 62, "naive", TRUE) >> >>) }

\* Mutant: only the samples of the first record are taken.
Flatten_FirstRecord(records) ==
  IF records = <<>> THEN <<>>
  ELSE SelectSeq(Head(records), LAMBDA x : x.tz # "bad")

\* lines 415-423: the samples of all records, in order; a sample whose time
\* does not parse is left out
RECURSIVE Flatten(_)
Flatten(records) ==
  IF records = <<>> THEN <<>>
  ELSE SelectSeq(Head(records), LAMBDA x : x.tz # "bad")
         \o Flatten(Tail(records))

\* line 426: comparing an aware with a naive datetime raises TypeError
MixedAwareness(samples) ==
  \E i, j \in 1..Len(samples) : samples[i].tz # samples[j].tz

\* line 426: all_hr_samples.sort(key=time), by insertion
RECURSIVE InsertSorted(_, _)
InsertSorted(x, s) ==
  IF s = <<>> THEN <<x>>
  ELSE IF x.time < Head(s).time THEN <<x>> \o s
  ELSE <<Head(s)>> \o InsertSorted(x, Tail(s))

RECURSIVE SortByTime(_)
SortByTime(s) ==
  IF s = <<>> THEN <<>>
  ELSE InsertSorted(s[Len(s)], SortByTime(SubSeq(s, 1, Len(s) - 1)))

\* Mutant: the end of the session is excluded.
RECURSIVE SessionHr_EndExcluded(_, _)
SessionHr_EndExcluded(session, samples) ==
  IF samples = <<>> THEN [failed |-> FALSE, sum |-> 0, count |-> 0]
  ELSE LET rest == SessionHr_EndExcluded(session, Tail(samples))
           s == Head(samples) IN
       IF s.time >= session.startTime /\ s.time < session.endTime
       THEN [failed |-> rest.failed, sum |-> rest.sum + s.bpm,
             count |-> rest.count + 1]
       ELSE rest

\* Mutant: what a scan had added before it failed is kept.
RECURSIVE SessionHr_KeepPartial(_, _)
SessionHr_KeepPartial(session, samples) ==
  IF samples = <<>> THEN [failed |-> FALSE, sum |-> 0, count |-> 0]
  ELSE LET rest == SessionHr_KeepPartial(session, Tail(samples))
           s == Head(samples) IN
       IF s.tz # session.tz THEN [failed |-> FALSE, sum |-> 0, count |-> 0]
       ELSE IF s.time >= session.startTime /\ s.time <= session.endTime
       THEN IF s.numeric
            THEN [failed |-> rest.failed, sum |-> rest.sum + s.bpm,
                  count |-> rest.count + 1]
            ELSE [failed |-> FALSE, sum |-> 0, count |-> 0]
       ELSE rest

\* lines 433-442: sum and count of the samples inside one session. failed:
\* an exception ended the scan (a sample and the session differ in having
\* an offset, or the beatsPerMinute of a sample inside is not a number).
RECURSIVE SessionHr(_, _)
SessionHr(session, samples) ==
  IF samples = <<>> THEN [failed |-> FALSE, sum |-> 0, count |-> 0]
  ELSE LET rest == SessionHr(session, Tail(samples))
           s == Head(samples) IN
       IF s.tz # session.tz THEN [failed |-> TRUE, sum |-> 0, count |-> 0]
       ELSE IF s.time >= session.startTime /\ s.time <= session.endTime
       THEN IF s.numeric
            THEN [failed |-> rest.failed, sum |-> rest.sum + s.bpm,
                  count |-> rest.count + 1]
            ELSE [failed |-> TRUE, sum |-> 0, count |-> 0]
       ELSE rest

\* lines 432-442: the end time is parsed before the scan (line 434); when it
\* does not parse the scan does not start
SessionScan(session, samples) ==
  IF ~session.endParses THEN [failed |-> TRUE, sum |-> 0, count |-> 0]
  ELSE SessionHr(session, samples)

\* lines 431-453: totals over the recent sessions; a session whose scan
\* failed (except clause, line 452) adds nothing
RECURSIVE TotalHr(_, _)
TotalHr(sessions, samples) ==
  IF sessions = <<>> THEN [sum |-> 0, count |-> 0]
  ELSE LET one == SessionScan(Head(sessions), samples)
           rest == TotalHr(Tail(sessions), samples) IN
       IF one.failed THEN rest
       ELSE [sum |-> one.sum + rest.sum, count |-> one.count + rest.count]

\* Mutant: the start of the window is excluded.
RecentSessions_Strict(sessions) ==
  SelectSeq(sessions, LAMBDA s : s.tz # "bad" /\ s.startTime > CutoffH)

\* Mutant: every session is taken.
RecentSessions_All(sessions) ==
  SelectSeq(sessions, LAMBDA s : s.tz # "bad")

\* lines 397-404: a session whose startTime does not parse is left out
RecentSessions(sessions) ==
  SelectSeq(sessions, LAMBDA s : s.tz # "bad" /\ s.startTime >= CutoffH)

\* Mutant: an average of exactly the threshold counts as high.
IsHigh_AtLeast(sum, count) == sum >= HIGH_SLEEP_HR_THRESHOLD * count

\* lines 458-459: overall_avg_sleep_hr = sum / count, is_high = avg > 70
IsHigh(sum, count) == sum > HIGH_SLEEP_HR_THRESHOLD * count

\* The returned metrics. avg_sleep_hr is sum/count, kept as the pair; count 0
\* is None. raised is TRUE when the function raises instead of returning.
Metrics(sum, count, high, err) ==
  [raised |-> FALSE, sum |-> sum, count |-> count, is_sleep_hr_high |-> high,
   error |-> err]

Raises(exc) ==
  [raised |-> TRUE, sum |-> 0, count |-> 0, is_sleep_hr_high |-> FALSE,
   error |-> exc]

process_health_data(snap) ==
  IF snap.kind = "missing" THEN Metrics(0, 0, FALSE, "Health data file not found.")
  ELSE IF snap.kind = "unreadable"
       THEN Metrics(0, 0, FALSE, "Error reading health data")
  \* line 387: .get on a value that is not a dict, outside the try
  ELSE IF snap.kind = "notdict" THEN Raises("AttributeError")
  ELSE IF snap.sleep = <<>> \/ snap.hr = <<>>
       THEN Metrics(0, 0, FALSE, "Missing sleep or heart rate data.")
  ELSE LET recent == RecentSessions(snap.sleep)
           all_hr_samples == Flatten(snap.hr) IN
       IF recent = <<>> THEN Metrics(0, 0, FALSE, "No recent sleep data.")
       \* line 426: the sort is outside every try
       ELSE IF MixedAwareness(all_hr_samples) THEN Raises("TypeError")
       ELSE LET t == TotalHr(recent, SortByTime(all_hr_samples)) IN
            IF t.count > 0
            THEN Metrics(t.sum, t.count, IsHigh(t.sum, t.count), NoErr)
            ELSE Metrics(0, 0, FALSE, NoErr)

NoMetrics == Metrics(0, 0, FALSE, NoErr)

\* ------------------------------------------------------------------------
\* State
\* ------------------------------------------------------------------------

VARIABLES
  pc,             \* request r: where its handler thread is
  flight,         \* request r: flight_details
  health,         \* request r: health_metrics
  inMem,          \* request r: the result of Stage B held by the crew (0: none)
  recsDict,       \* request r: recommendations_dict and recommendations_generated
  response,       \* request r: the HTTP response (status 0: none yet)
  providerCalls,  \* request r: calls of amadeus.schedule.flights.get
  log,            \* request r: what has happened in it (history)
  recWrites,      \* request r: times it opened recommendations.json for writing
  recStore,       \* recommendations.json
  calStore,       \* calendar_events.json
  jobPc,          \* schedule thread of request r
  jobOut,         \* schedule thread of request r: the generated text
  jobPrompt,      \* schedule thread of request r: input of the generation call
  jobRuns,        \* schedule thread of request r: generation calls made
  calWrites,      \* schedule thread of request r: times it opened the calendar file
  calendar_lock,  \* the thread that holds calendar_lock, or NoThread
  calResp,        \* last response of GET /api/calendar/events
  healthData,     \* health_data.json as one call of process_health_data finds it
  healthSignal,   \* what that call returned
  providerResponse, \* what amadeus.schedule.flights.get returned to one lookup
  flightResult,   \* what get_flight_details made of it (src/app.py)
  testerResult,   \* what the script src/tester.py made of it
  hostOffset,     \* the local timezone of the host, in hours ahead of UTC
  isoInput,       \* the string given to one call of format_iso_datetime
  isoResult,      \* what format_iso_datetime of src/app.py returned
  testerIsoResult, \* what format_iso_datetime of src/tester.py returned
  directionInput, \* the two times one direction estimate starts from
  travel_direction, \* the direction estimated from them
  opKind,       \* per caller: the operation taking calendar_lock it runs
  opPc,         \* per caller: idle, waiting, holding, done
  opResult,     \* per caller: what its operation returned
  healthFile    \* health_data.json: the caller whose payload it holds

reqVars == <<pc, flight, health, inMem, recsDict, response, providerCalls,
             log, recWrites>>
jobVars == <<jobPc, jobOut, jobPrompt, jobRuns, calWrites>>
lockVars == <<opKind, opPc, opResult, healthFile>>
calVars == <<calendar_lock, calResp, lockVars>>
\* one call of each pure function, studied on its own
healthVars == <<healthData, healthSignal>>
lookupVars == <<providerResponse, flightResult, testerResult>>
timeVars == <<isoInput, isoResult, testerIsoResult>>
directionVars == <<directionInput, travel_direction>>
pureVars == <<healthVars, lookupVars, hostOffset, timeVars, directionVars>>
vars == <<pc, flight, health, inMem, recsDict, response, providerCalls, log,
          recWrites, recStore, calStore, jobPc, jobOut, jobPrompt, jobRuns,
          calWrites, calendar_lock, calResp, healthData, healthSignal,
          providerResponse, flightResult, testerResult, hostOffset,
          isoInput, isoResult, testerIsoResult, directionInput,
          travel_direction, opKind, opPc, opResult, healthFile>>

NoResponse == [status |-> 0, success |-> FALSE, recs |-> 0, error |-> FALSE]
NoRecsDict == [generated |-> FALSE, recs |-> 0]
NoPrompt == [flight |-> NoFlight, recsFile |-> "none", recsContent |-> NoFile]
\* recommendations_dict = {"error": ...} is recs -1
ErrorDict == -1

\* No call of a pure function is being studied.
NotCalled == "not called"
NoSignal ==
  [raised |-> FALSE, sum |-> 0, count |-> 0, is_sleep_hr_high |-> FALSE,
   error |-> NotCalled]
NoFlightResult == [flight |-> NoFlight, err |-> NotCalled]
NotFormatted == Timestamp(0, 0, NotCalled, 0)

\* The service has started: no request yet, no thread, the lock free.
InitRequests ==
  /\ pc = [r \in Reqs |-> "idle"]
  /\ flight = [r \in Reqs |-> NoFlight]
  /\ health = [r \in Reqs |-> NoMetrics]
  /\ inMem = [r \in Reqs |-> 0]
  /\ recsDict = [r \in Reqs |-> NoRecsDict]
  /\ response = [r \in Reqs |-> NoResponse]
  /\ providerCalls = [r \in Reqs |-> 0]
  /\ log = [r \in Reqs |-> {}]
  /\ recWrites = [r \in Reqs |-> 0]
  /\ recStore = NoFile
  /\ jobPc = [r \in Reqs |-> "none"]
  /\ jobOut = [r \in Reqs |-> <<>>]
  /\ jobPrompt = [r \in Reqs |-> NoPrompt]
  /\ jobRuns = [r \in Reqs |-> 0]
  /\ calWrites = [r \in Reqs |-> 0]
  /\ calendar_lock = NoThread
  /\ calResp = [status |-> 0, events |-> 0]
  /\ opKind = [t \in Ops |-> "none"]
  /\ opPc = [t \in Ops |-> "idle"]
  /\ opResult = [t \in Ops |-> NoResult]
  /\ healthFile = 0

InitNoHealthCall ==
  /\ healthData = MissingSnapshot
  /\ healthSignal = NoSignal

InitNoLookupCall ==
  /\ providerResponse = [error |-> FALSE, data |-> <<>>]
  /\ flightResult = NoFlightResult
  /\ testerResult = NoFlightResult

InitNoTimeCall ==
  /\ isoInput = BadTimestamp
  /\ isoResult = NotFormatted
  /\ testerIsoResult = NotFormatted

InitNoDirectionCall ==
  /\ directionInput = [departure |-> BadTimestamp, arrival |-> BadTimestamp]
  /\ travel_direction = NotCalled

\* The provider payloads of this specification carry their UTC offset, so
\* that the timezone of the host plays no part in it.
Init ==
  /\ InitRequests
  /\ calStore = NoCalFile
  /\ InitNoHealthCall
  /\ InitNoLookupCall
  /\ hostOffset = 0
  /\ InitNoTimeCall
  /\ InitNoDirectionCall

\* ------------------------------------------------------------------------
\* flight_recommendations_endpoint
\* ------------------------------------------------------------------------

\* line 658
BadRequestResponse ==
  [status |-> 400, success |-> FALSE, recs |-> 0, error |-> TRUE]

\* lines 667-668
LookupErrorResponse ==
  [status |-> 500, success |-> FALSE, recs |-> 0, error |-> TRUE]

\* lines 712-719
SuccessResponse(recs) ==
  [status |-> 200, success |-> TRUE, recs |-> recs, error |-> FALSE]

\* Mutant: the except clause answers as if the request had succeeded.
ExceptionResponse_Success ==
  [status |-> 200, success |-> TRUE, recs |-> -1, error |-> FALSE]

\* the handler's except clause, lines 721-726
ExceptionResponse ==
  [status |-> 500, success |-> FALSE, recs |-> 0, error |-> TRUE]


Goto(r, next, tags) ==
  /\ pc' = [pc EXCEPT ![r] = next]
  /\ log' = [log EXCEPT ![r] = @ \cup tags]

\* The handler returns `resp` and the request thread ends.
Return(r, resp, tags) ==
  /\ Goto(r, "done", tags)
  /\ response' = [response EXCEPT ![r] = resp]

\* The body of the POST: a JSON object with the three required fields, a
\* JSON object that lacks one of them, the JSON null, or no body at all.
Bodies == {"complete", "missing_field", "null", "absent"}

\* line 655, request.json: the parsed body, None, or an exception of the
\* framework (no body to parse). Without a body the framework either
\* returns None or raises, depending on the Content-Type header.
RequestJson(body) ==
  IF body = "absent" THEN {"None", "raise"}
  ELSE IF body = "null" THEN {"None"}
  ELSE {body}

\* line 657: not data or not all(field in data for field in required_fields)
MissingFields(data) == data # "complete"

\* lines 654-663: the body is read and checked; an exception of request.json
\* is caught at line 721
ValidateBody(r) ==
  /\ pc[r] = "idle"
  /\ \E body \in Bodies : \E data \in RequestJson(body) :
       IF data = "raise"
       THEN Return(r, ExceptionResponse, {"bad_body"})
       ELSE IF MissingFields(data)
       THEN Return(r, BadRequestResponse, {"bad_body"})
       ELSE /\ Goto(r, "lookup", {})
            /\ UNCHANGED response
  /\ UNCHANGED <<flight, health, inMem, recsDict, providerCalls, recWrites>>
  /\ UNCHANGED <<recStore, calStore, jobVars, calVars, pureVars>>

\* Mutant: the handler does not test the error message.
LookupFailed_Ignored(res) == FALSE

\* lines 667-668: the handler's test of what get_flight_details returned
LookupFailed(res) == res.err # NoErr \/ ~res.flight.found

\* lines 665-669
GetFlightDetails(r) ==
  /\ pc[r] = "lookup"
  /\ \E p \in ProviderPayloads :
       LET res == get_flight_details(p, hostOffset)
           tags == {"provider"} \cup
                   (IF res.err # NoErr THEN {"lookup_failed"} ELSE {}) IN
       /\ providerCalls' = [providerCalls EXCEPT ![r] = @ + 1]
       /\ flight' = [flight EXCEPT ![r] = res.flight]
       /\ IF LookupFailed(res)
          THEN Return(r, LookupErrorResponse, tags)
          ELSE /\ Goto(r, "health", tags)
               /\ UNCHANGED response
  /\ UNCHANGED <<health, inMem, recsDict, recWrites>>
  /\ UNCHANGED <<recStore, calStore, jobVars, calVars, pureVars>>

\* lines 671-672; an exception of process_health_data reaches line 721
ProcessHealth(r) ==
  /\ pc[r] = "health"
  /\ \E snap \in HealthSnapshots :
       LET m == process_health_data(snap) IN
       IF m.raised
       THEN /\ Return(r, ExceptionResponse, {"correlator", "correlator_raised"})
            /\ UNCHANGED health
       ELSE /\ Goto(r, "stageA", {"correlator"})
            /\ health' = [health EXCEPT ![r] = m]
            /\ UNCHANGED response
  /\ UNCHANGED <<flight, inMem, recsDict, providerCalls, recWrites>>
  /\ UNCHANGED <<recStore, calStore, jobVars, calVars, pureVars>>

\* lines 676-677, kickoff: the analyze_travel task (Stage A). A failure of the
\* generation call is an exception of kickoff, caught at line 721.
KickoffStageA(r) ==
  /\ pc[r] = "stageA"
  /\ \E ok \in BOOLEAN :
       IF ok THEN /\ Goto(r, "stageB", {"stageA"})
                  /\ UNCHANGED response
       ELSE Return(r, ExceptionResponse, {"stageA", "generation_failed"})
  /\ UNCHANGED <<flight, health, inMem, recsDict, providerCalls, recWrites>>
  /\ UNCHANGED <<recStore, calStore, jobVars, calVars, pureVars>>

\* Mutant: the crew does not run its tasks in sequence, Stage B may run
\* before Stage A.
KickoffStageB_Unordered(r) ==
  /\ pc[r] \in {"stageA", "stageB"}
  /\ \E ok \in BOOLEAN :
       IF ok THEN /\ Goto(r, "write", {"stageB"})
                  /\ inMem' = [inMem EXCEPT ![r] = r]
                  /\ UNCHANGED response
       ELSE /\ Return(r, ExceptionResponse, {"stageB", "generation_failed"})
            /\ UNCHANGED inMem
  /\ health' = [health EXCEPT ![r] = NoMetrics]
  /\ UNCHANGED <<flight, recsDict, providerCalls, recWrites>>
  /\ UNCHANGED <<recStore, calStore, jobVars, calVars, pureVars>>

\* kickoff: health_recommendations_task (Stage B), with output_pydantic
KickoffStageB(r) ==
  /\ pc[r] = "stageB"
  /\ \E ok \in BOOLEAN :
       IF ok THEN /\ Goto(r, "write", {"stageB"})
                  /\ inMem' = [inMem EXCEPT ![r] = r]
                  /\ UNCHANGED response
       ELSE /\ Return(r, ExceptionResponse, {"stageB", "generation_failed"})
            /\ UNCHANGED inMem
  \* health_metrics is not used after the crew has run
  /\ health' = [health EXCEPT ![r] = NoMetrics]
  /\ UNCHANGED <<flight, recsDict, providerCalls, recWrites>>
  /\ UNCHANGED <<recStore, calStore, jobVars, calVars, pureVars>>

\* kickoff, line 639: output_file=RECOMMENDATIONS_FILE is opened for writing
\* (truncated). The write can fail before anything is changed: either
\* kickoff raises, or it returns with the file as it was (the case lines
\* 688-690 provide for). calendar_lock is not taken.
KickoffWriteOpen(r) ==
  /\ pc[r] = "write"
  /\ \E outcome \in {"ok", "raise", "silent"} :
       CASE outcome = "ok" ->
              /\ Goto(r, "writing", {})
              /\ recStore' = EmptyFile
              /\ recWrites' = [recWrites EXCEPT ![r] = @ + 1]
              /\ UNCHANGED response
         [] outcome = "raise" ->
              /\ Return(r, ExceptionResponse, {"write_failed"})
              /\ UNCHANGED <<recStore, recWrites>>
         [] outcome = "silent" ->
              /\ Goto(r, "read", {"write_failed"})
              /\ UNCHANGED <<recStore, recWrites, response>>
  /\ UNCHANGED <<flight, health, inMem, recsDict, providerCalls>>
  /\ UNCHANGED <<calStore, jobVars, calVars, pureVars>>

\* Mutant: the file keeps what an earlier request wrote to it.
KickoffWriteClose_KeepFirst(r) ==
  /\ pc[r] = "writing"
  /\ LET before == { q \in Reqs \ {r} : "write_ok" \in log[q] } IN
     recStore' = IF before = {} THEN RecFile(inMem[r])
                 ELSE RecFile(CHOOSE q \in before : TRUE)
  /\ Goto(r, "read", {"write_ok"})
  /\ UNCHANGED <<flight, health, inMem, recsDict, response, providerCalls,
                 recWrites>>
  /\ UNCHANGED <<calStore, jobVars, calVars, pureVars>>

\* kickoff: the content is written and the file closed; kickoff returns
KickoffWriteClose(r) ==
  /\ pc[r] = "writing"
  /\ recStore' = RecFile(inMem[r])
  /\ Goto(r, "read", {"write_ok"})
  /\ UNCHANGED <<flight, health, inMem, recsDict, response, providerCalls,
                 recWrites>>
  /\ UNCHANGED <<calStore, jobVars, calVars, pureVars>>

\* lines 680-697: recommendations_dict and recommendations_generated from
\* the file as it is now; ioerror is an exception of open or read
ReadRecommendationsFile(file, ioerror) ==
  IF ~file.exists THEN [generated |-> FALSE, recs |-> ErrorDict]
  ELSE IF ioerror THEN [generated |-> FALSE, recs |-> ErrorDict]
  ELSE IF file.body = 0 THEN [generated |-> FALSE, recs |-> ErrorDict]
  ELSE [generated |-> TRUE, recs |-> file.body]

\* Mutant: the thread is started whatever the read-back gave.
StartedJob_Always(r, generated) == "started"

\* lines 505-511: the thread is started with the flight JSON and the two
\* file names
StartedJob(r, generated) == IF generated THEN "started" ELSE "none"

\* lines 679-708: read the file back (calendar_lock is not taken), then
\* start the schedule thread if recommendations_generated
ReadAndLaunch(r) ==
  /\ pc[r] = "read"
  /\ \E ioerror \in BOOLEAN :
       LET d == ReadRecommendationsFile(recStore, ioerror) IN
       /\ recsDict' = [recsDict EXCEPT ![r] = d]
       /\ jobPc' = [jobPc EXCEPT ![r] = StartedJob(r, d.generated)]
       /\ Goto(r, "respond",
               (IF d.generated THEN {"launched"} ELSE {"read_failed"}))
  /\ UNCHANGED <<flight, health, inMem, response, providerCalls, recWrites>>
  /\ UNCHANGED <<recStore, calStore, jobOut, jobPrompt, jobRuns, calWrites,
                 calVars, pureVars>>

\* Mutant: the handler joins the schedule thread before it responds.
Respond_Join(r) ==
  /\ pc[r] = "respond"
  /\ jobPc[r] \in {"none", "done", "failed"}
  /\ Return(r, [status |-> 200, success |-> TRUE, recs |-> recsDict[r].recs,
                error |-> FALSE], {})
  /\ UNCHANGED <<flight, health, inMem, recsDict, providerCalls, recWrites>>
  /\ UNCHANGED <<recStore, calStore, jobVars, calVars, pureVars>>

\* lines 711-719: the response is returned; the thread is not joined
Respond(r) ==
  /\ pc[r] = "respond"
  /\ Return(r, SuccessResponse(recsDict[r].recs), {})
  /\ UNCHANGED <<flight, health, inMem, recsDict, providerCalls, recWrites>>
  /\ UNCHANGED <<recStore, calStore, jobVars, calVars, pureVars>>

\* ------------------------------------------------------------------------
\* run_schedule_generation_task
\* ------------------------------------------------------------------------

\* lines 512-535: the task description holds the flight JSON and the NAME of
\* the recommendations file; the file is not opened by this function and the
\* agent has no tools.
SchedulePrompt(r) ==
  [flight |-> flight[r], recsFile |-> "recommendations.json",
   recsContent |-> NoFile]

\* Mutant: no except clause, the exception leaves the thread function.
JobExcept_Propagate == "crashed"

\* lines 552-553: `except Exception` logs and the thread function returns
JobExcept == "failed"

\* Mutant: the output file is opened (truncated) before the generation call.
JobGenerate_OpenFirst(r) ==
  /\ jobPc[r] = "started"
  /\ jobPrompt' = [jobPrompt EXCEPT ![r] = SchedulePrompt(r)]
  /\ jobRuns' = [jobRuns EXCEPT ![r] = @ + 1]
  /\ calStore' = EmptyCalFile
  /\ calWrites' = [calWrites EXCEPT ![r] = @ + 1]
  /\ \/ /\ jobPc' = [jobPc EXCEPT ![r] = "failed"]
        /\ UNCHANGED jobOut
     \/ \E out \in JobOutputs :
          /\ jobOut' = [jobOut EXCEPT ![r] = out]
          /\ jobPc' = [jobPc EXCEPT ![r] = "writing"]
  /\ UNCHANGED <<reqVars, recStore, calVars, pureVars>>

\* line 548, schedule_crew.kickoff(): the generation call
JobGenerate(r) ==
  /\ jobPc[r] = "started"
  /\ jobPrompt' = [jobPrompt EXCEPT ![r] = SchedulePrompt(r)]
  /\ jobRuns' = [jobRuns EXCEPT ![r] = @ + 1]
  /\ \/ /\ jobPc' = [jobPc EXCEPT ![r] = JobExcept]
        /\ UNCHANGED jobOut
     \/ \E out \in JobOutputs :
          /\ jobOut' = [jobOut EXCEPT ![r] = out]
          /\ jobPc' = [jobPc EXCEPT ![r] = "generated"]
  /\ UNCHANGED <<reqVars, recStore, calStore, calWrites, calVars, pureVars>>

\* Mutant: the thread is stopped while a request is being handled.
JobWriteOpen_StoppedByRequests(r) ==
  /\ jobPc[r] = "generated"
  /\ \A q \in Reqs : pc[q] \in {"idle", "done"}
  /\ \/ /\ calStore' = EmptyCalFile
        /\ calWrites' = [calWrites EXCEPT ![r] = @ + 1]
        /\ jobPc' = [jobPc EXCEPT ![r] = "writing"]
     \/ /\ jobPc' = [jobPc EXCEPT ![r] = JobExcept]
        /\ UNCHANGED <<calStore, calWrites>>
  /\ UNCHANGED <<reqVars, recStore, jobOut, jobPrompt, jobRuns, calVars, pureVars>>

\* line 534: output_file=calendar_file is opened for writing (truncated), or
\* the open fails and the exception is caught at line 552. No lock is taken.
JobWriteOpen(r) ==
  /\ jobPc[r] = "generated"
  /\ \/ /\ calStore' = EmptyCalFile
        /\ calWrites' = [calWrites EXCEPT ![r] = @ + 1]
        /\ jobPc' = [jobPc EXCEPT ![r] = "writing"]
     \/ /\ jobPc' = [jobPc EXCEPT ![r] = JobExcept]
        /\ UNCHANGED <<calStore, calWrites>>
  /\ UNCHANGED <<reqVars, recStore, jobOut, jobPrompt, jobRuns, calVars, pureVars>>

\* the raw generated text is written, whatever it is, and the file closed
JobWriteClose(r) ==
  /\ jobPc[r] = "writing"
  /\ calStore' = CalFile(r, jobOut[r])
  /\ jobPc' = [jobPc EXCEPT ![r] = "done"]
  /\ UNCHANGED <<reqVars, recStore, jobOut, jobPrompt, jobRuns, calWrites,
                 calVars, pureVars>>

\* ------------------------------------------------------------------------
\* GET /api/calendar/events
\* ------------------------------------------------------------------------

\* line 201: with calendar_lock
CalendarAcquire ==
  /\ calendar_lock = NoThread
  /\ calendar_lock' = CalendarReadThread
  /\ UNCHANGED <<reqVars, recStore, calStore, jobVars, calResp, lockVars,
                 pureVars>>

\* line 760: jsonify(events), or the 500 the framework answers when the
\* view function raises
CalendarResponse(res) ==
  IF res.raised THEN [status |-> 500, events |-> 0]
  ELSE [status |-> 200, events |-> res.events]

\* lines 202-233 and 759-760: read, clean, parse, release, respond
CalendarRead ==
  /\ calendar_lock = CalendarReadThread
  /\ calResp' = CalendarResponse(clean_and_parse_json_file(calStore))
  /\ calendar_lock' = NoThread
  /\ UNCHANGED <<reqVars, recStore, calStore, jobVars, lockVars, pureVars>>

\* ------------------------------------------------------------------------

\* The recommendation requests and their schedule threads.
Next ==
  \/ \E r \in Reqs : ValidateBody(r)
  \/ \E r \in Reqs : GetFlightDetails(r)
  \/ \E r \in Reqs : ProcessHealth(r)
  \/ \E r \in Reqs : KickoffStageA(r)
  \/ \E r \in Reqs : KickoffStageB(r)
  \/ \E r \in Reqs : KickoffWriteOpen(r)
  \/ \E r \in Reqs : KickoffWriteClose(r)
  \/ \E r \in Reqs : ReadAndLaunch(r)
  \/ \E r \in Reqs : Respond(r)
  \/ \E r \in Reqs : JobGenerate(r)
  \/ \E r \in Reqs : JobWriteOpen(r)
  \/ \E r \in Reqs : JobWriteClose(r)

Spec == Init /\ [][Next]_vars

\* The same, with fairness for the one step that is pure computation of the
\* request thread: building and returning the response (lines 711-719). The
\* generation calls have no timeout and get no fairness.
FairSpec == Spec /\ \A r \in Reqs : WF_vars(Respond(r))

\* The same as Spec, together with the calendar read endpoint.
NextCal ==
  \/ Next
  \/ CalendarAcquire
  \/ CalendarRead

SpecCal == Init /\ [][NextCal]_vars

\* ------------------------------------------------------------------------
\* The three operations that take calendar_lock, called concurrently
\* ------------------------------------------------------------------------

LockedOperations ==
  {"read_calendar_events", "clean_and_parse_json_file", "receive_health_data"}

\* The body of a POST /api/health-data: a non-empty JSON value, an empty
\* one, or a body request.json fails on.
Payloads == {"data", "empty", "no_json"}

\* What can happen to open() and json.dump() on health_data.json.
WriteOutcomes == {"ok", "IOError"}

\* lines 184-197: the events returned (the owner's list, or 0 for []);
\* json.load accepts whitespace around the value, every exception is caught
read_calendar_events(file) ==
  IF ~file.exists \/ ~file.readable THEN 0
  ELSE IF JsonLoads(file.text) = "list" THEN file.owner
  ELSE 0

\* lines 732-735 and 750-752: what receive_health_data answers before it
\* reaches the lock (0: it goes on to the lock)
EarlyStatus(payload) ==
  IF payload = "no_json" THEN 500
  ELSE IF payload = "empty" THEN 400
  ELSE 0

\* A caller enters one of the operations; receive_health_data returns
\* before the lock on an empty or unreadable body.
OpCall(t, kind, payload) ==
  /\ opPc[t] = "idle"
  /\ opKind' = [opKind EXCEPT ![t] = kind]
  /\ IF kind = "receive_health_data" /\ EarlyStatus(payload) # 0
     THEN /\ opPc' = [opPc EXCEPT ![t] = "done"]
          /\ opResult' = [opResult EXCEPT ![t] =
                            [status |-> EarlyStatus(payload), events |-> 0]]
     ELSE /\ opPc' = [opPc EXCEPT ![t] = "waiting"]
          /\ UNCHANGED opResult
  /\ UNCHANGED <<reqVars, recStore, calStore, jobVars, calendar_lock,
                 calResp, healthFile, pureVars>>

\* lines 183, 201, 741: with calendar_lock blocks until the lock is free
OpAcquire(t) ==
  /\ opPc[t] = "waiting"
  /\ calendar_lock = NoThread
  /\ calendar_lock' = OpThread(t)
  /\ opPc' = [opPc EXCEPT ![t] = "holding"]
  /\ UNCHANGED <<reqVars, recStore, calStore, jobVars, calResp, opKind,
                 opResult, healthFile, pureVars>>

\* Mutant: the lock stays taken when an exception leaves the block.
Released_OnReturnOnly(t, raised) ==
  IF raised THEN OpThread(t) ELSE NoThread

\* The end of a with calendar_lock block: the lock is released whether the
\* block is left by a return or by an exception.
Released(t, raised) == NoThread

\* What the operation of a caller returns, from the file it reads or the
\* outcome of its write.
OpReturn(kind, file, outcome) ==
  IF kind = "read_calendar_events"
  THEN [status |-> 200, events |-> read_calendar_events(file)]
  ELSE IF kind = "clean_and_parse_json_file"
  THEN CalendarResponse(clean_and_parse_json_file(file))
  ELSE IF outcome = "ok" THEN [status |-> 200, events |-> 0]
  ELSE [status |-> 500, events |-> 0]

\* Whether an exception leaves the with block: the two reads catch inside
\* the block (lines 185-197, 202-233), the write outside it (line 747).
LeavesByException(kind, file, outcome) ==
  IF kind = "receive_health_data" THEN outcome = "IOError"
  ELSE IF kind = "clean_and_parse_json_file"
  THEN clean_and_parse_json_file(file).raised
  ELSE FALSE

\* The body of the block and its end: the read or the write, the release,
\* the return.
OpBody(t, outcome) ==
  /\ opPc[t] = "holding"
  /\ opResult' = [opResult EXCEPT ![t] = OpReturn(opKind[t], calStore, outcome)]
  /\ healthFile' = IF opKind[t] = "receive_health_data" /\ outcome = "ok"
                   THEN t ELSE healthFile
  /\ calendar_lock' = Released(t, LeavesByException(opKind[t], calStore, outcome))
  /\ opPc' = [opPc EXCEPT ![t] = "done"]
  /\ UNCHANGED <<reqVars, recStore, calStore, jobVars, calResp, opKind,
                 pureVars>>

\* The request that runs while the operations are called.
LockReq == 1

NextLock ==
  \/ \E t \in Ops : \E kind \in LockedOperations : \E payload \in Payloads :
       OpCall(t, kind, payload)
  \/ \E t \in Ops : OpAcquire(t)
  \/ \E t \in Ops : \E outcome \in WriteOutcomes : OpBody(t, outcome)
  \/ ValidateBody(LockReq)
  \/ GetFlightDetails(LockReq)
  \/ ProcessHealth(LockReq)
  \/ KickoffStageA(LockReq)
  \/ KickoffStageB(LockReq)
  \/ KickoffWriteOpen(LockReq)
  \/ KickoffWriteClose(LockReq)
  \/ ReadAndLaunch(LockReq)
  \/ Respond(LockReq)
  \/ JobGenerate(LockReq)
  \/ JobWriteOpen(LockReq)
  \/ JobWriteClose(LockReq)

SpecLock == Init /\ [][NextLock]_vars

\* The same, with fairness for the steps of the callers once they are at
\* the lock: a free lock that callers wait for is taken by one of them, and
\* the file access of the holder ends. Which waiting caller gets the lock is
\* not prescribed, and the generation calls get no fairness.
FairSpecLock ==
  /\ SpecLock
  /\ WF_vars(\E t \in Ops : OpAcquire(t))
  /\ WF_vars(\E t \in Ops : OpBody(t, "ok"))

\* ------------------------------------------------------------------------
\* The calendar read on its own, for every content of calendar_events.json
\* ------------------------------------------------------------------------

\* Longest text of arbitrary tokens.
MaxTextLen == 3

Tokens == {"FENCE_JSON", "FENCE", "WS", "L", "D", "X"}

RECURSIVE TextsOfLen(_)
TextsOfLen(n) ==
  IF n = 0 THEN { <<>> }
  ELSE { <<t>> \o rest : t \in Tokens, rest \in TextsOfLen(n - 1) }

ArbitraryTexts == UNION { TextsOfLen(n) : n \in 0..MaxTextLen }

\* A JSON text inside an optional fenced block, with optional whitespace
\* before, between and after.
WsRuns == { <<>>, <<"WS">> }
LeadingMarkers == { <<>>, <<"FENCE_JSON">>, <<"FENCE">> }
TrailingMarkers == { <<>>, <<"FENCE">> }

Fenced(body) ==
  { a \o lead \o b \o <<body>> \o c \o trail \o d :
      a \in WsRuns, lead \in LeadingMarkers, b \in WsRuns, c \in WsRuns,
      trail \in TrailingMarkers, d \in WsRuns }

\* What calendar_events.json may hold when the service starts: the file is
\* kept between runs and holds raw generated text.
CalendarContents ==
  { NoCalFile } \cup
  { CalFile(1, text) : text \in ArbitraryTexts \cup Fenced("L")
                                \cup Fenced("D") \cup Fenced("X") } \cup
  { UnreadableCalFile(1, text) : text \in ArbitraryTexts }

InitRead ==
  /\ InitRequests
  /\ calStore \in CalendarContents
  /\ InitNoHealthCall
  /\ InitNoLookupCall
  /\ hostOffset = 0
  /\ InitNoTimeCall
  /\ InitNoDirectionCall

NextRead ==
  \/ CalendarAcquire
  \/ CalendarRead

SpecRead == InitRead /\ [][NextRead]_vars

\* ------------------------------------------------------------------------
\* process_health_data on its own, for every snapshot of a bounded set
\* ------------------------------------------------------------------------

\* Most sleep sessions and most heart-rate records of a snapshot.
MaxSessions == 2
MaxRecords == 3
\* Length of a sleep session, in hours.
SessionHours == 8

\* Sessions: starting exactly at the cutoff, one hour before it, overlapping
\* the first, and far from every sample.
SessionChoices ==
  { Session(CutoffH, CutoffH + SessionHours),
    Session(CutoffH - 1, CutoffH - 1 + SessionHours),
    Session(CutoffH + 2, CutoffH + 2 + SessionHours),
    Session(CutoffH + 20, CutoffH + 20 + SessionHours) }

\* Samples: inside the first session, at the start of the third, at the end
\* of the first, and before the first.
SampleChoices ==
  { Sample(CutoffH + 1, 60),
    Sample(CutoffH + 2, 80),
    Sample(CutoffH + SessionHours, 71),
    Sample(CutoffH - 1, 200) }

\* A heart-rate record: no samples list, or one sample.
RecordChoices == { <<>> } \cup { <<x>> : x \in SampleChoices }

RECURSIVE SeqsOfLen(_, _)
SeqsOfLen(S, n) ==
  IF n = 0 THEN { <<>> }
  ELSE { <<x>> \o rest : x \in S, rest \in SeqsOfLen(S, n - 1) }

SeqsUpTo(S, n) == UNION { SeqsOfLen(S, k) : k \in 0..n }

SnapshotInputs ==
  { MissingSnapshot, UnreadableSnapshot, NotDictSnapshot } \cup
  { DictSnapshot(sleep, hr) : sleep \in SeqsUpTo(SessionChoices, MaxSessions),
                              hr \in SeqsUpTo(RecordChoices, MaxRecords) }

InitHealth ==
  /\ InitRequests
  /\ calStore = NoCalFile
  /\ healthData \in SnapshotInputs
  /\ healthSignal = NoSignal
  /\ InitNoLookupCall
  /\ hostOffset = 0
  /\ InitNoTimeCall
  /\ InitNoDirectionCall

\* lines 372-468: one call
ProcessHealthData ==
  /\ healthSignal = NoSignal
  /\ healthSignal' = process_health_data(healthData)
  /\ UNCHANGED <<reqVars, recStore, calStore, jobVars, calVars, healthData,
                 lookupVars, hostOffset, timeVars, directionVars>>

NextHealth == ProcessHealthData

SpecHealth == InitHealth /\ [][NextHealth]_vars

\* ------------------------------------------------------------------------
\* process_health_data on its own, for every order of a bounded number of
\* samples and every grouping of them into heart-rate records
\* ------------------------------------------------------------------------

\* Most samples of a snapshot.
MaxSamples == 3

\* Two recent sessions that overlap, and between them one whose times carry
\* no offset and one whose end time is no timestamp.
GroupedSessions ==
  << Session(CutoffH, CutoffH + SessionHours),
     SessionTz(CutoffH + 1, CutoffH + 1 + SessionHours, "naive"),
     SessionBadEnd(CutoffH + 1, "utc"),
     Session(CutoffH + 2, CutoffH + 2 + SessionHours) >>

\* Samples: inside the first session, two at the same time inside both
\* sessions, one without offset, one inside the last session only whose
\* beatsPerMinute is no number, and one whose time does not parse.
GroupedSamples ==
  { Sample(CutoffH + 1, 60),
    Sample(CutoffH + 2, 80),
    Sample(CutoffH + 2, 71),
    SampleTz(CutoffH + 3, 90, "naive", TRUE),
    SampleTz(CutoffH + SessionHours + 1, 75, "utc", FALSE),
    SampleTz(CutoffH + 5, 50, "bad", TRUE) }

\* The ways to cut a sequence of samples into consecutive records.
RECURSIVE Groupings(_)
Groupings(samples) ==
  IF samples = <<>> THEN { <<>> }
  ELSE UNION { { <<SubSeq(samples, 1, k)>> \o rest :
                   rest \in Groupings(SubSeq(samples, k + 1, Len(samples))) } :
               k \in 1 .. Len(samples) }

GroupedInputs ==
  { DictSnapshot(GroupedSessions, hr) :
      hr \in UNION { Groupings(samples) :
                       samples \in SeqsUpTo(GroupedSamples, MaxSamples) } }

InitSamples ==
  /\ InitRequests
  /\ calStore = NoCalFile
  /\ healthData \in GroupedInputs
  /\ healthSignal = NoSignal
  /\ InitNoLookupCall
  /\ hostOffset = 0
  /\ InitNoTimeCall
  /\ InitNoDirectionCall

SpecSamples == InitSamples /\ [][NextHealth]_vars

\* ------------------------------------------------------------------------
\* The normalization on its own, for every provider response of a bounded
\* set, by get_flight_details and by the script src/tester.py
\* ------------------------------------------------------------------------

\* Most entries of a provider response.
MaxEntries == 3

\* Entries with 1, 2 and 3 flight points, complete, and entries with 2
\* points that lack the departure timings, the arrival timings, or an
\* airport code or time value.
EntryShapes ==
  { Entry(0, 1, TRUE, TRUE, TRUE),
    Entry(0, 2, TRUE, TRUE, TRUE),
    Entry(0, 3, TRUE, TRUE, TRUE),
    Entry(0, 2, FALSE, TRUE, TRUE),
    Entry(0, 2, TRUE, FALSE, TRUE),
    Entry(0, 2, TRUE, TRUE, FALSE) }

\* The entries, and the segments and legs of an entry, are numbered in
\* provider order.
Numbered(shapes) == [i \in DOMAIN shapes |-> [shapes[i] EXCEPT !.id = i]]

\* Most segments, and most legs, of a provider entry.
MaxParts == 2

\* Time values of the two end points: 10:00 and 15:00 UTC of day 1, 12:00
\* of day 1 five hours behind UTC (17:00 UTC), 01:00 of day 2 nine hours
\* ahead of UTC (16:00 UTC of day 1), 11:00 of day 1 without offset, and a
\* string that is no timestamp.
ScheduleTimes ==
  { Timestamp(1, 10, "offset", 0), Timestamp(1, 15, "offset", 0),
    Timestamp(1, 12, "offset", -5), Timestamp(2, 1, "offset", 9),
    Timestamp(1, 11, "naive", 0), BadTimestamp }

\* Entries of 2 flight points with every pair of time values.
TimedEntries ==
  { FlightEntry(1, Route(2), TRUE, TRUE, TRUE, d, a, <<>>, <<>>) :
      d \in ScheduleTimes, a \in ScheduleTimes }

\* Segments and legs between the airports of a route, and back.
PartChoices ==
  { Part(0, "JFK", "ORD"), Part(0, "JFK", "LAX"), Part(0, "ORD", "LAX"),
    Part(0, "LAX", "JFK") }

\* Entries of 2 and 3 flight points with every list of segments and legs.
PartedEntries ==
  { FlightEntry(1, Route(n), TRUE, TRUE, TRUE,
                Timestamp(1, 10, "offset", 0), Timestamp(1, 15, "offset", 0),
                Numbered(segments), Numbered(legs)) :
      n \in {2, 3},
      segments \in SeqsUpTo(PartChoices, MaxParts),
      legs \in SeqsUpTo(PartChoices, MaxParts) }

ProviderInputs ==
  { [error |-> TRUE, data |-> <<>>] } \cup
  { [error |-> FALSE, data |-> Numbered(shapes)] :
      shapes \in SeqsUpTo(EntryShapes, MaxEntries) } \cup
  { [error |-> FALSE, data |-> <<e>>] : e \in TimedEntries \cup PartedEntries }

InitLookup ==
  /\ InitRequests
  /\ calStore = NoCalFile
  /\ InitNoHealthCall
  /\ InitNoTimeCall
  /\ InitNoDirectionCall
  /\ hostOffset \in HostOffsets
  /\ providerResponse \in ProviderInputs
  /\ flightResult = NoFlightResult
  /\ testerResult = NoFlightResult

\* src/app.py lines 265-334: one call
GetFlightDetailsCall ==
  /\ flightResult = NoFlightResult
  /\ flightResult' = get_flight_details(providerResponse, hostOffset)
  /\ UNCHANGED <<reqVars, recStore, calStore, jobVars, calVars, healthVars,
                 providerResponse, testerResult, hostOffset, timeVars,
                 directionVars>>

\* src/tester.py lines 48-133: one run of the script
TesterRun ==
  /\ testerResult = NoFlightResult
  /\ testerResult' = tester_flight_details(providerResponse)
  /\ UNCHANGED <<reqVars, recStore, calStore, jobVars, calVars, healthVars,
                 providerResponse, flightResult, hostOffset, timeVars,
                 directionVars>>

NextLookup ==
  \/ GetFlightDetailsCall
  \/ TesterRun

SpecLookup == InitLookup /\ [][NextLookup]_vars

\* ------------------------------------------------------------------------
\* format_iso_datetime on its own, for every timestamp of a bounded set and
\* hosts in several timezones, in src/app.py and in src/tester.py
\* ------------------------------------------------------------------------

\* Last day of the timestamps.
MaxDay == 2

Hours == 0 .. (HoursPerDay - 1)

TimestampInputs ==
  { Timestamp(d, h, "offset", o) :
      d \in 1 .. MaxDay, h \in Hours, o \in UtcOffsets } \cup
  { Timestamp(d, h, k, 0) : d \in 1 .. MaxDay, h \in Hours, k \in {"naive", "z"} }
  \cup { BadTimestamp }

InitTime ==
  /\ InitRequests
  /\ calStore = NoCalFile
  /\ InitNoHealthCall
  /\ InitNoLookupCall
  /\ InitNoDirectionCall
  /\ hostOffset \in HostOffsets
  /\ isoInput \in TimestampInputs
  /\ isoResult = NotFormatted
  /\ testerIsoResult = NotFormatted

\* src/app.py lines 240-263: one call
FormatIsoDatetime ==
  /\ isoResult = NotFormatted
  /\ isoResult' = format_iso_datetime(isoInput, hostOffset)
  /\ UNCHANGED <<reqVars, recStore, calStore, jobVars, calVars, healthVars,
                 lookupVars, hostOffset, isoInput, testerIsoResult,
                 directionVars>>

\* src/tester.py lines 24-38: one call
TesterFormatIsoDatetime ==
  /\ testerIsoResult = NotFormatted
  /\ testerIsoResult' = tester_format_iso_datetime(isoInput)
  /\ UNCHANGED <<reqVars, recStore, calStore, jobVars, calVars, healthVars,
                 lookupVars, hostOffset, isoInput, isoResult, directionVars>>

NextTime ==
  \/ FormatIsoDatetime
  \/ TesterFormatIsoDatetime

SpecTime == InitTime /\ [][NextTime]_vars

\* ------------------------------------------------------------------------
\* The estimate of the travel direction on its own, for every pair of times
\* that a flight record can hold
\* ------------------------------------------------------------------------

\* scheduledTimeISO of a flight record as format_iso_datetime wrote it, or
\* the text that stands for a missing time (lines 561-562).
RecordTimes ==
  { Timestamp(d, h, "z", 0) : d \in 1 .. MaxDay, h \in Hours }
  \cup { BadTimestamp }

InitDirection ==
  /\ InitRequests
  /\ calStore = NoCalFile
  /\ InitNoHealthCall
  /\ InitNoLookupCall
  /\ hostOffset = 0
  /\ InitNoTimeCall
  /\ directionInput \in [departure : RecordTimes, arrival : RecordTimes]
  /\ travel_direction = NotCalled

\* lines 594-613: one estimate
EstimateDirection ==
  /\ travel_direction = NotCalled
  /\ travel_direction' =
       TravelDirection(directionInput.departure, directionInput.arrival)
  /\ UNCHANGED <<reqVars, recStore, calStore, jobVars, calVars, healthVars,
                 lookupVars, hostOffset, timeVars, directionInput>>

NextDirection == EstimateDirection

SpecDirection == InitDirection /\ [][NextDirection]_vars

\* ------------------------------------------------------------------------
\* Properties
\* ------------------------------------------------------------------------

Responded(r) == response[r].status # 0

\* C1: a request whose write of the recommendation store failed never has a
\* schedule job started for it.
C1_NoJobAfterFailedWrite ==
  \A r \in Reqs : "write_failed" \in log[r] => jobPc[r] = "none"

\* C2: once the schedule thread has been started (or skipped), returning the
\* response waits for nothing: the return step of the handler can be taken
\* in every state, whatever the schedule job is doing.
C2_ResponseDoesNotWaitForJob ==
  \A r \in Reqs : pc[r] = "respond" => ENABLED Respond(r)

\* C2, as a consequence under FairSpec (no fairness for any step of a
\* schedule job): the response is eventually returned.
C2_EventuallyResponds ==
  \A r \in Reqs : (pc[r] = "respond") ~> (pc[r] = "done")

C2_Witness ==
  \E r \in Reqs : /\ pc[r] = "done"
                  /\ response[r].status = 200
                  /\ jobPc[r] = "started"

\* C3: a thread that has a store open for writing holds calendar_lock.
C3_StoreWritesHoldLock ==
  \A r \in Reqs :
    /\ pc[r] = "writing" => calendar_lock = RequestThread(r)
    /\ jobPc[r] = "writing" => calendar_lock = JobThread(r)

\* C4: when the schedule job makes its generation call, the input of the
\* call contains the content the recommendation store holds at that time.
C4_JobInputHoldsStoreContent ==
  [][\A r \in Reqs :
       (jobPc[r] = "started" /\ jobPc'[r] # "started")
         => jobPrompt'[r].recsContent = recStore]_vars

\* The generated text is a parseable event list (after the fences are
\* stripped, as the reader of the calendar store does).
ParseableEvents(r, text) ==
  clean_and_parse_json_file(CalFile(r, text)).events = r

\* C5 as stated: a job that failed, because generation raised or because the
\* output is no parseable event list, has not touched the calendar store.
C5_FailedJobLeavesCalendarStore ==
  \A r \in Reqs :
    (\/ jobPc[r] = "failed"
     \/ jobPc[r] \in {"writing", "done"} /\ ~ParseableEvents(r, jobOut[r]))
      => calWrites[r] = 0

\* C5 amended: a job whose generation call raised (or whose output file
\* could not be opened) has not touched the calendar store; a job whose
\* generation call returned has written the raw output to the calendar
\* store, parseable or not.
C5_RaisedJobLeavesCalendarStore ==
  \A r \in Reqs :
    /\ jobPc[r] = "failed" => calWrites[r] = 0
    /\ jobPc[r] = "done" => calWrites[r] = 1

C5_Witness ==
  \E r \in Reqs : \E q \in Reqs \ {r} :
    /\ jobPc[r] = "failed"
    /\ jobRuns[r] = 1
    /\ jobPc[q] = "done"
    /\ calStore = CalFile(q, jobOut[q])

\* C6: a failure inside a schedule job ends the job in its except clause:
\* the thread function returns, the generation call is not repeated, and the
\* response of the request that started the job is the success response it
\* would have been anyway.
C6_JobFailureSwallowed ==
  \A r \in Reqs :
    /\ jobPc[r] \in {"none", "started", "generated", "writing", "done", "failed"}
    /\ jobRuns[r] <= 1
    /\ (jobPc[r] = "failed" /\ Responded(r))
         => response[r] = SuccessResponse(recsDict[r].recs)

C6_Witness ==
  \E r \in Reqs : jobPc[r] = "failed" /\ pc[r] = "done"

\* C7: a request in which Stage A or Stage B failed ends with a 500 response
\* carrying an error, and has no schedule job.
C7_GenerationFailureIsRequestFailure ==
  \A r \in Reqs :
    "generation_failed" \in log[r]
      => /\ pc[r] = "done"
         /\ response[r].status = 500
         /\ response[r].error
         /\ ~response[r].success
         /\ jobPc[r] = "none"
         /\ "launched" \notin log[r]

C7_Witness ==
  \E r \in Reqs : /\ "generation_failed" \in log[r]
                  /\ "stageB" \in log[r]
                  /\ Responded(r)

\* C8: a request in which the recommendation store could not be written or
\* read back is answered with a 4xx/5xx error.
C8_StoreFaultIsRequestFailure ==
  \A r \in Reqs :
    (Responded(r) /\ log[r] \cap {"write_failed", "read_failed"} # {})
      => response[r].status >= 400 /\ ~response[r].success

\* C9: a request whose Stage B produced a result and whose store write
\* failed is answered with that result.
C9_FailedWriteStillReturnsResult ==
  \A r \in Reqs :
    (Responded(r) /\ "write_failed" \in log[r])
      => response[r].status = 200 /\ response[r].recs = inMem[r]

\* C10: a request whose flight lookup failed ends with a failure response
\* after exactly one provider call; the Correlator, the Recommendation Stage
\* and the Schedule Stage did not run for it and it opened neither store.
C10_LookupFailureEndsRequest ==
  \A r \in Reqs :
    "lookup_failed" \in log[r]
      => /\ pc[r] = "done"
         /\ response[r].status = 500
         /\ response[r].error
         /\ providerCalls[r] = 1
         /\ log[r] \cap {"correlator", "stageA", "stageB", "launched"} = {}
         /\ inMem[r] = 0
         /\ jobPc[r] = "none"
         /\ jobRuns[r] = 0
         /\ recWrites[r] = 0
         /\ calWrites[r] = 0

C10_Witness ==
  \E r \in Reqs : /\ "lookup_failed" \in log[r]
                  /\ Responded(r)
                  /\ recStore.exists

\* C11: every request that has ended has one response, 200 with success and
\* the recommendations or 4xx/5xx with an error; and a request whose body is
\* absent or lacks a required field is answered 400, with no flight lookup,
\* no generation call, no store write and no schedule job.
C11_BadBodyGets400 ==
  \A r \in Reqs :
    /\ pc[r] = "done" <=> Responded(r)
    /\ Responded(r)
         => \/ response[r].status = 200 /\ response[r].success
                                        /\ ~response[r].error
            \/ response[r].status >= 400 /\ response[r].error
                                         /\ ~response[r].success
    /\ "bad_body" \in log[r]
         => /\ response[r].status = 400
            /\ providerCalls[r] = 0
            /\ log[r] \cap {"provider", "stageA", "stageB", "launched"} = {}
            /\ recWrites[r] = 0
            /\ calWrites[r] = 0
            /\ jobPc[r] = "none"

\* Texts from which no event list can come: nothing but whitespace, no list
\* at all (so at most a JSON value that is not a list), or text that is no
\* JSON somewhere.
OnlyWhitespace(text) == \A i \in 1..Len(text) : text[i] = "WS"
NoListIn(text) == \A i \in 1..Len(text) : text[i] # "L"
MalformedIn(text) == \E i \in 1..Len(text) : text[i] = "X"

\* C12: the calendar read answers 200 with a list whatever the calendar
\* store holds, and with the empty list when the store is missing, empty,
\* not readable, holds malformed JSON or holds JSON that is not a list.
C12_CalendarReadNeverRaises ==
  calResp.status # 0
    => /\ calResp.status = 200
       /\ calResp.events \in {0, calStore.owner}
       /\ (\/ ~calStore.exists
           \/ ~calStore.readable
           \/ OnlyWhitespace(calStore.text)
           \/ NoListIn(calStore.text)
           \/ MalformedIn(calStore.text)) => calResp.events = 0

C12_Witness ==
  /\ calResp.status = 200
  /\ calResp.events = 0
  /\ calStore.exists
  /\ ~calStore.readable
  /\ calStore.text = <<"FENCE_JSON", "L", "FENCE">>

\* C13: when the calendar store holds a JSON list inside an optional leading
\* fence (with or without the json tag) and an optional trailing fence, with
\* whitespace around them, the calendar read returns that list; and the
\* fence stripping leaves a text without fences as it is.
C13_FencedListIsReturned ==
  /\ (calResp.status # 0 /\ calStore.readable
         /\ calStore.text \in Fenced("L"))
       => calResp = [status |-> 200, events |-> calStore.owner]
  /\ (\A i \in 1..Len(calStore.text) :
         calStore.text[i] \notin {"FENCE_JSON", "FENCE"})
       => RemoveFences(Strip(calStore.text)) = Strip(calStore.text)

C13_Witness ==
  /\ calResp = [status |-> 200, events |-> 1]
  /\ calStore.text = <<"WS", "FENCE", "WS", "L", "WS", "FENCE", "WS">>

\* The call has returned a result.
Returned == healthSignal # NoSignal /\ ~healthSignal.raised

\* The (session, record, sample) triples of the snapshot.
AllPairs ==
  UNION { { <<i, k, j>> : j \in DOMAIN healthData.hr[k] } :
            i \in DOMAIN healthData.sleep, k \in DOMAIN healthData.hr }

\* The sample lies in the session, both ends included.
InWindow(p) ==
  /\ healthData.sleep[p[1]].startTime <= healthData.hr[p[2]][p[3]].time
  /\ healthData.hr[p[2]][p[3]].time <= healthData.sleep[p[1]].endTime

\* The session starts at or after now minus the window.
StartsInWindowDays(p) ==
  healthData.sleep[p[1]].startTime >= NowH - DaysToConsider * HoursPerDay

WindowPairs == { p \in AllPairs : StartsInWindowDays(p) /\ InWindow(p) }

RECURSIVE BpmOver(_)
BpmOver(pairs) ==
  IF pairs = {} THEN 0
  ELSE LET p == CHOOSE q \in pairs : TRUE IN
       healthData.hr[p[2]][p[3]].bpm + BpmOver(pairs \ {p})

\* C14: the average is the sum of beatsPerMinute over the number of samples,
\* taken over exactly the pairs of a recent session and a sample inside it
\* (both ends included); the session [T, T+8h] with 60 at T+1h, 80 at T+2h
\* and 200 at T-1h gives exactly 70.
C14_AverageOverWindowPairs ==
  Returned
    => /\ healthSignal.count = Cardinality(WindowPairs)
       /\ healthSignal.sum = BpmOver(WindowPairs)
       /\ healthData =
             DictSnapshot(<< Session(CutoffH, CutoffH + 8) >>,
                          << << Sample(CutoffH + 1, 60) >>,
                             << Sample(CutoffH + 2, 80) >>,
                             << Sample(CutoffH - 1, 200) >> >>)
            => /\ healthSignal.count = 2
               /\ healthSignal.sum = 70 * healthSignal.count

C14_Witness ==
  /\ Returned
  /\ healthData =
        DictSnapshot(<< Session(CutoffH, CutoffH + 8) >>,
                     << << Sample(CutoffH + 1, 60) >>,
                        << Sample(CutoffH + 2, 80) >>,
                        << Sample(CutoffH - 1, 200) >> >>)
  /\ healthSignal.sum = 140

\* C15: is_sleep_hr_high is true exactly when there is an average and it is
\* strictly greater than 70; an average of exactly 70 is not high, and
\* without an average it is false.
C15_HighIffAbove70 ==
  Returned
    => /\ healthSignal.is_sleep_hr_high
            <=> (healthSignal.count > 0
                   /\ healthSignal.sum > 70 * healthSignal.count)
       /\ healthSignal.sum = 70 * healthSignal.count
            => ~healthSignal.is_sleep_hr_high
       /\ healthSignal.count = 0 => ~healthSignal.is_sleep_hr_high

C15_Witness ==
  /\ Returned
  /\ healthSignal.count = 2
  /\ healthSignal.sum = 140
  /\ ~healthSignal.is_sleep_hr_high

\* The degenerate snapshots: no file, no sleep sessions, no heart-rate
\* records, no session inside the trailing window, no sample inside any
\* recent session.
Degenerate ==
  \/ healthData.kind = "missing"
  \/ /\ healthData.kind = "dict"
     /\ \/ healthData.sleep = <<>>
        \/ healthData.hr = <<>>
        \/ \A i \in DOMAIN healthData.sleep :
              healthData.sleep[i].startTime < CutoffH
        \/ WindowPairs = {}

\* C16: for a degenerate snapshot the call returns no average and
\* is_sleep_hr_high = False.
C16_DegenerateHasNoAverage ==
  (healthSignal # NoSignal /\ Degenerate)
    => /\ ~healthSignal.raised
       /\ healthSignal.count = 0
       /\ ~healthSignal.is_sleep_hr_high

C16_Witness ==
  /\ Returned
  /\ healthSignal.count = 0
  /\ healthData.kind = "dict"
  /\ Len(healthData.sleep) = 2
  /\ \A i \in DOMAIN healthData.sleep :
        healthData.sleep[i].startTime < CutoffH
  /\ \E p \in AllPairs : InWindow(p)

\* C17: for a degenerate snapshot the result carries a reason: its error
\* value is not empty.
C17_DegenerateHasReason ==
  (healthSignal # NoSignal /\ Degenerate)
    => healthSignal.error # NoErr

\* C18: the correlator never raises, so a request that has called it goes on
\* to the Recommendation Stage: it does not end before Stage A.
C18_CorrelatorNeverEndsRequest ==
  \A r \in Reqs :
    ("correlator" \in log[r] /\ "stageA" \notin log[r])
      => /\ "correlator_raised" \notin log[r]
         /\ ~Responded(r)

Qualifies(e) == e.npoints >= 2 /\ e.depTimings /\ e.arrTimings

\* The record is built from the first qualifying entry of the response, with
\* its first point as departure and its last as arrival; without a
\* qualifying entry the result is the incomplete-data error and no record.
FromFirstQualifying(result) ==
  LET data == providerResponse.data
      q == { i \in DOMAIN data : Qualifies(data[i]) } IN
  IF q = {}
  THEN result = [flight |-> NoFlight,
                 err |-> "Could not extract complete flight details"]
  ELSE LET k == CHOOSE i \in q : \A j \in q : i <= j IN
       /\ result.err = NoErr
       /\ result.flight.found
       /\ result.flight.entry = k
       /\ result.flight.departure = 1
       /\ result.flight.arrival = data[k].npoints

\* C20: for a provider response with entries, the normalization (in
\* src/app.py and in src/tester.py) builds the record from the first entry
\* with at least 2 points and timings on both end points, never from a later
\* one; entries with fewer than 2 points do not end the search; if no entry
\* qualifies the result is the incomplete-data error.
C20_FirstQualifyingEntry ==
  (~providerResponse.error /\ providerResponse.data # <<>>)
    => /\ flightResult # NoFlightResult => FromFirstQualifying(flightResult)
       /\ testerResult # NoFlightResult => FromFirstQualifying(testerResult)

\* Hours since the start of day 0 of a formatted time.
InstantOf(t) == HoursOf(t.day, t.hour)

\* C21: every flight record that get_flight_details returns has a departure
\* time strictly earlier than its arrival time; an entry whose formatted
\* departure is not before its arrival is rejected.
C21_DepartureBeforeArrival ==
  flightResult.flight.found
    => InstantOf(flightResult.flight.departureTime)
         < InstantOf(flightResult.flight.arrivalTime)

\* C22: format_iso_datetime of src/app.py takes a timestamp without UTC
\* offset as UTC: the result has the date and the time of day of the input,
\* whatever the timezone of the host.
C22_NaiveTakenAsUtc ==
  (isoResult # NotFormatted /\ isoInput.kind = "naive")
    => /\ isoResult.kind = "z"
       /\ isoResult.day = isoInput.day
       /\ isoResult.hour = isoInput.hour

\* The formatted time is the instant of the input, local time minus the
\* offset, written in UTC with the suffix Z.
SameInstantInUtc(out) ==
  /\ out.kind = "z"
  /\ out.hour \in Hours
  /\ InstantOf(out) = InstantOf(isoInput) - isoInput.offset

\* C23: for a timestamp with a UTC offset, format_iso_datetime (of src/app.py
\* and of src/tester.py) returns the same instant in UTC, in the form
\* YYYY-MM-DDTHH:MM:SSZ.
C23_OffsetConvertedToUtc ==
  isoInput.kind = "offset"
    => /\ isoResult # NotFormatted => SameInstantInUtc(isoResult)
       /\ testerIsoResult # NotFormatted => SameInstantInUtc(testerIsoResult)

\* The parts of a list that board at the departure airport of a record and
\* end at its arrival airport, in the order of the list.
Matching(parts, rec) ==
  SelectSeq(parts, LAMBDA part :
    /\ part.boardPointIataCode = rec.departureCode
    /\ part.offPointIataCode = rec.arrivalCode)

\* The segments and legs of a returned record are the matching ones of the
\* entry it was built from.
ExactParts(result) ==
  result.flight.found
    => LET e == providerResponse.data[result.flight.entry] IN
       /\ result.flight.segments = Matching(e.segments, result.flight)
       /\ result.flight.legs = Matching(e.legs, result.flight)

\* C24: the segments and legs of a returned flight record (src/app.py and
\* src/tester.py) are exactly the segments and legs of the selected entry
\* whose board airport is the departure airport of the record and whose off
\* airport is its arrival airport, in their original order.
C24_SegmentsAndLegsOfTheRoute ==
  /\ flightResult # NoFlightResult => ExactParts(flightResult)
  /\ testerResult # NoFlightResult => ExactParts(testerResult)

\* Both implementations returned a record from an entry with two segments,
\* of which one was kept, and two legs, both kept.
C24_Witness ==
  /\ flightResult.flight.found /\ testerResult.flight.found
  /\ Len(providerResponse.data[1].segments) = 2
  /\ Len(flightResult.flight.segments) = 1
  /\ Len(testerResult.flight.segments) = 1
  /\ Len(providerResponse.data[1].legs) = 2
  /\ Len(flightResult.flight.legs) = 2

\* C25: get_flight_details reports a failed provider call and a schedule
\* that is present but unusable as different errors, the former never as
\* incomplete (or absent) data and the latter never as a provider error,
\* and returns no flight record together with an error.
C25_DistinctLookupErrors ==
  flightResult # NoFlightResult
    => /\ providerResponse.error
            => flightResult.err \notin
                 { NoErr, "Could not extract complete flight details",
                   "No flight data available" }
       /\ ~providerResponse.error => flightResult.err # "Amadeus API Error"
       /\ (~providerResponse.error /\ providerResponse.data # <<>>
             /\ ~flightResult.flight.found)
            => flightResult.err = "Could not extract complete flight details"
       /\ flightResult.err # NoErr => flightResult.flight = NoFlight

\* The provider call failed and the lookup has returned.
C25_Witness ==
  /\ providerResponse.error
  /\ flightResult.err = "Amadeus API Error"
  /\ flightResult.flight = NoFlight

\* The tag was added to the history of request r by this step.
Logged(r, tag) == tag \in log'[r] /\ tag \notin log[r]

\* What has happened in request r came after everything the order puts
\* before it (the history of a request only grows).
InOrder(r) ==
  /\ "correlator" \in log[r] => "provider" \in log[r]
  /\ "stageA" \in log[r] => "correlator" \in log[r]
  /\ "stageB" \in log[r] => "stageA" \in log[r]
  /\ pc[r] = "stageB" => "generation_failed" \notin log[r]
  /\ recWrites[r] > 0
       => "stageB" \in log[r] /\ "generation_failed" \notin log[r]
  /\ jobPc[r] # "none"
       => /\ {"provider", "correlator", "stageA", "stageB"} \subseteq log[r]
          /\ "generation_failed" \notin log[r]
          /\ {"write_ok", "write_failed"} \cap log[r] # {}
          /\ pc[r] \in {"respond", "done"}
  /\ response[r].success
       => /\ {"launched", "read_failed"} \cap log[r] # {}
          /\ {"write_ok", "write_failed"} \cap log[r] # {}

\* C26: within a request the steps occur in the order lookup, correlator,
\* Stage A, Stage B, write of the recommendation store, launch of the
\* schedule thread, response; Stage B does not start before Stage A has
\* completed, nor the schedule thread before the crew of the same request
\* has returned.
C26_StepsInOrder == \A r \in Reqs : InOrder(r)

\* A request went through every step and its schedule thread has started.
C26_Witness ==
  \E r \in Reqs :
    /\ {"provider", "correlator", "stageA", "stageB", "write_ok", "launched"}
         \subseteq log[r]
    /\ jobPc[r] = "started"
    /\ response[r].success

\* Request r is the only one being handled.
Alone(r) == \A q \in Reqs \ {r} : pc[q] \in {"idle", "done"}

\* The store changes only by the step of a request whose crew writes it.
WrittenByCrewOnly ==
  recStore' # recStore
    => \E r \in Reqs : pc[r] \in {"write", "writing"} /\ pc'[r] # pc[r]

\* When the write of r completes and r is alone, the store holds the result
\* of r.
Overwritten(r) ==
  (Logged(r, "write_ok") /\ Alone(r)) => recStore' = RecFile(r)

\* C27: the recommendation store is written at most once per request, only
\* by the crew of a request, and by overwriting: when the write of a request
\* completes with no other request being handled, the store holds the
\* result of that request and nothing of what it held before.
C27_StoreOverwrittenOncePerRequest ==
  /\ [](\A r \in Reqs : recWrites[r] <= 1)
  /\ [][WrittenByCrewOnly /\ \A r \in Reqs : Overwritten(r)]_vars

\* The write of a request has completed, on a store that held the result of
\* an earlier request, which has ended.
C27_Witness ==
  \E r \in Reqs : \E q \in Reqs \ {r} :
    /\ "write_ok" \in log[q] /\ pc[q] = "done"
    /\ "write_ok" \in log[r] /\ pc[r] = "read"
    /\ recStore = RecFile(r)

\* The states a schedule thread goes through, in their order.
JobMoves ==
  { <<"none", "started">>, <<"started", "generated">>, <<"started", "failed">>,
    <<"generated", "writing">>, <<"generated", "failed">>,
    <<"writing", "done">> }

\* The thread of r made at most one generation call, and after that call has
\* returned its next step can be taken.
OneRunAndNeverStopped(r) ==
  /\ jobRuns[r] <= 1
  /\ jobPc[r] = "generated" => ENABLED JobWriteOpen(r)
  /\ jobPc[r] = "writing" => ENABLED JobWriteClose(r)

\* The thread of r moves forward only, and once started not by the step of
\* a request.
MovedByItself(r) ==
  jobPc'[r] # jobPc[r]
    => /\ <<jobPc[r], jobPc'[r]>> \in JobMoves
       /\ jobPc[r] # "none" => pc' = pc

\* C28: a schedule thread that has started is never cancelled or restarted:
\* it makes one generation call, moves only forward, by steps of its own and
\* not by steps of a request, and once its generation call has returned its
\* next step can always be taken, whatever the requests are doing, until it
\* ends as done or failed.
C28_JobRunsToItsEnd ==
  /\ [](\A r \in Reqs : OneRunAndNeverStopped(r))
  /\ [][\A r \in Reqs : MovedByItself(r)]_vars

\* The thread of one request ended while a later request was being handled.
C28_Witness ==
  \E r \in Reqs : \E q \in Reqs \ {r} :
    /\ jobPc[r] = "done"
    /\ pc[r] = "done"
    /\ pc[q] \in {"stageA", "stageB", "write", "writing", "read"}

\* C29: the travel direction is westward exactly when both times parse, the
\* time of day of the departure is earlier than that of the arrival and
\* arrival minus departure is under 12 hours; in every other case (12 hours
\* or more, equal times of day, a time that does not parse) it is eastward.
C29_WestwardIffEarlierAndUnder12h ==
  travel_direction # NotCalled
    => LET dep == directionInput.departure
           arr == directionInput.arrival
           west ==
             /\ dep # BadTimestamp /\ arr # BadTimestamp
             /\ dep.hour < arr.hour
             /\ InstantOf(arr) - InstantOf(dep) < 12 IN
       /\ west => travel_direction = "westward"
       /\ ~west => travel_direction = "eastward"

\* A flight that leaves at 10:00 and arrives at 15:00 of the same day was
\* estimated westward.
C29_Witness ==
  /\ travel_direction = "westward"
  /\ directionInput.departure = Timestamp(1, 10, "z", 0)
  /\ directionInput.arrival = Timestamp(1, 15, "z", 0)

\* All samples of the records, unparseable ones included, in their order.
RECURSIVE AllSamples(_)
AllSamples(records) ==
  IF records = <<>> THEN <<>>
  ELSE Head(records) \o AllSamples(Tail(records))

\* A number that tells the samples of GroupedSamples apart.
SampleKey(x) == x.bpm

RECURSIVE InsertByKey(_, _)
InsertByKey(x, s) ==
  IF s = <<>> THEN <<x>>
  ELSE IF SampleKey(x) >= SampleKey(Head(s)) THEN <<x>> \o s
  ELSE <<Head(s)>> \o InsertByKey(x, Tail(s))

RECURSIVE SortByKey(_)
SortByKey(s) ==
  IF s = <<>> THEN <<>>
  ELSE InsertByKey(Head(s), SortByKey(Tail(s)))

\* The same sessions and the same samples, the samples in one record and in
\* an order that depends on the samples only, not on how they were given.
Regrouped(snap) ==
  IF AllSamples(snap.hr) = <<>> THEN snap
  ELSE DictSnapshot(snap.sleep, << SortByKey(AllSamples(snap.hr)) >>)

\* C30: the result of process_health_data depends on the samples only, not
\* on their order nor on how they are grouped into records: it is the result
\* for the same samples given as one record in a fixed order.
C30_OrderAndGroupingDoNotMatter ==
  healthSignal # NoSignal
    => healthSignal = process_health_data(Regrouped(healthData))

\* An average was returned for three samples given in two records, latest
\* sample first.
C30_Witness ==
  /\ healthSignal # NoSignal
  /\ ~healthSignal.raised
  /\ healthData.hr = << << Sample(CutoffH + 2, 80), Sample(CutoffH + 2, 71) >>,
                        << Sample(CutoffH + 1, 60) >> >>
  /\ healthSignal.count = 5
  /\ Regrouped(healthData) # healthData

\* C31: with several requests in progress, the recommendations in the 200
\* response of a request whose own write completed are the result of the
\* Stage B of that request, never the result another request wrote.
C31_ResponseHoldsOwnResult ==
  \A r \in Reqs :
    (response[r].status = 200 /\ "write_ok" \in log[r]
       /\ response[r].recs # ErrorDict)
      => response[r].recs = inMem[r]

\* Every request that was made has been answered with 200 after writing its
\* result, and its schedule thread has written its schedule and ended.
AllFinishedSuccessfully ==
  /\ \E r \in Reqs : pc[r] # "idle"
  /\ \A r \in Reqs :
       pc[r] # "idle"
         => /\ pc[r] = "done" /\ response[r].status = 200
            /\ "write_ok" \in log[r]
            /\ jobPc[r] = "done"

\* C32: once every request has ended and every schedule thread has finished
\* successfully, the calendar store holds the schedule generated for the
\* request whose result is in the recommendation store.
C32_StoresDescribeOneRequest ==
  AllFinishedSuccessfully => calStore.owner = recStore.body

\* The handler of r has read the recommendation store back.
ReadBack(r) == {"launched", "read_failed"} \cap log[r] # {}

\* C33: a request starts at most one schedule thread, and starts one exactly
\* when the read-back found the recommendation store existing and parseable;
\* a request answered with 400 or 500 started none; the threads started are
\* at most as many as the requests answered, or about to be answered, with
\* 200.
C33_OneJobPerSuccessfulRequest ==
  /\ \A r \in Reqs :
       /\ jobRuns[r] <= 1
       /\ ~ReadBack(r) => jobPc[r] = "none"
       /\ ReadBack(r)
            => /\ jobPc[r] # "none" <=> recsDict[r].generated
               /\ recsDict[r].generated <=> recsDict[r].recs # ErrorDict
               /\ "launched" \in log[r] <=> recsDict[r].generated
       /\ (Responded(r) /\ response[r].status >= 400) => jobPc[r] = "none"
       /\ jobPc[r] # "none"
            => pc[r] = "respond" \/ response[r].status = 200
  /\ Cardinality({ r \in Reqs : jobPc[r] # "none" })
       <= Cardinality({ r \in Reqs :
                          pc[r] = "respond" \/ response[r].status = 200 })

\* One request has started its schedule thread, another was answered with
\* 200 without one after a failed read-back, and none was started twice.
C33_Witness ==
  \E r \in Reqs : \E q \in Reqs \ {r} :
    /\ jobPc[r] = "started" /\ recsDict[r].generated
    /\ response[q].status = 200 /\ "read_failed" \in log[q]
    /\ jobPc[q] = "none"

\* The scan of session i fails: its end time does not parse, a sample cannot
\* be compared with it, or a sample inside it cannot be added.
SessionFails(i) ==
  LET session == healthData.sleep[i] IN
  \/ ~session.endParses
  \/ \E k \in DOMAIN healthData.hr : \E j \in DOMAIN healthData.hr[k] :
       LET x == healthData.hr[k][j] IN
       /\ x.tz # "bad"
       /\ \/ x.tz # session.tz
          \/ InWindow(<<i, k, j>>) /\ ~x.numeric

\* The pairs of a recent session whose scan does not fail and a sample with
\* a parseable time inside it.
WholeSessionPairs ==
  { p \in WindowPairs :
      healthData.hr[p[2]][p[3]].tz # "bad" /\ ~SessionFails(p[1]) }

\* C35: a session adds all of its samples to the global sum and count or
\* none: a session whose processing fails adds nothing, and the sessions
\* before and after it add what they would add without it.
C35_SessionsCountWhollyOrNotAtAll ==
  Returned
    => /\ healthSignal.count = Cardinality(WholeSessionPairs)
       /\ healthSignal.sum = BpmOver(WholeSessionPairs)

\* The scan of the last session failed at its last sample, after a sample
\* it would have counted; the first session counted that sample.
C35_Witness ==
  /\ Returned
  /\ healthData.hr =
       << << SampleTz(CutoffH + SessionHours + 1, 75, "utc", FALSE),
             Sample(CutoffH + 2, 80) >> >>
  /\ SessionFails(4) /\ ~SessionFails(1)
  /\ healthSignal.count = 1
  /\ healthSignal.sum = 80

\* The lock is held exactly while one caller is inside its with block:
\* a caller that returned, by any path, no longer holds it, and no caller
\* takes it a second time.
HeldInsideTheBlockOnly ==
  /\ calendar_lock = NoThread \/ \E t \in Ops : calendar_lock = OpThread(t)
  /\ \A t \in Ops : (opPc[t] = "holding") <=> (calendar_lock = OpThread(t))

\* A generation call is in progress: the crew of a request, or the schedule
\* generation of its job.
Generating ==
  \E r \in Reqs : pc[r] \in {"stageA", "stageB"} \/ jobPc[r] = "started"

\* The holder can always go on to its release, whatever else is running,
\* and a free lock can always be taken by a caller waiting for it.
NeverStuckBehindGeneration ==
  /\ calendar_lock.kind \notin {"request", "job"}
  /\ \A t \in Ops :
       /\ opPc[t] = "holding" => ENABLED OpBody(t, "ok")
       /\ (opPc[t] = "waiting" /\ calendar_lock = NoThread)
            => ENABLED OpAcquire(t)

\* A wait for the lock ends in one way only: the caller holds the lock.
WaitEndsByAcquiring ==
  \A t \in Ops :
    (opPc[t] = "waiting" /\ opPc'[t] # "waiting")
      => (opPc'[t] = "holding" /\ calendar_lock' = OpThread(t))

\* C34: calendar_lock is released on every path of the three operations
\* that take it, is never taken by its holder and is never held by a thread
\* that runs a generation call, so a caller waiting for the lock eventually
\* holds it: every wait ends, and it ends by taking the lock.
C34_LockReleasedAndEventuallyAcquired ==
  /\ [](HeldInsideTheBlockOnly /\ NeverStuckBehindGeneration)
  /\ [][WaitEndsByAcquiring]_vars
  /\ <>[](\A t \in Ops : opPc[t] # "waiting")

\* A caller holds the lock after another left its block by an exception
\* (a failed write of health_data.json), while a generation call is in
\* progress.
C34_Witness ==
  \E t \in Ops : \E u \in Ops \ {t} :
    /\ opPc[t] = "holding" /\ calendar_lock = OpThread(t)
    /\ opKind[t] = "clean_and_parse_json_file"
    /\ opPc[u] = "done" /\ opKind[u] = "receive_health_data"
    /\ opResult[u].status = 500 /\ healthFile = 0
    /\ Generating

====
